---- MODULE Spec2Model ----
(***************************************************************************)
(* The streaming completion relay of TeaTreeChat:                          *)
(*   - DuplicateContentTracker.process_chunk   (app/api/routes/chat.py)    *)
(*   - generate_chat_completion, the upstream reader                       *)
(*                                              (app/services/openrouter.py)*)
(*   - stream_chat_completion, the SSE session  (app/api/routes/chat.py)   *)
(*   - chat_completion, the route that accepts the request                 *)
(*                                              (app/api/routes/chat.py)   *)
(* Python strings are sequences of one-character strings; JSON values are  *)
(* tagged records (JNull, JNum, JStr, JList, JDict).                       *)
(***************************************************************************)
EXTENDS Integers, Sequences, FiniteSets, TLC

VARIABLES
  tracker,        \* the DuplicateContentTracker instance (its fields)
  limits,         \* the accumulated-content cap and retained tail in force
  calls,          \* history of process_chunk calls: argument, result, state before/after
  user_api_key,   \* the credential handed to generate_chat_completion
  response,       \* what the provider answered to the POST (status 0: nothing yet)
  received,       \* the body lines the provider has delivered so far
  upstreamEnd,    \* how the body ended: "open", "closed", "reset" or "timeout"
  rpc,            \* where the generate_chat_completion generator stands
  connOpen,       \* the httpx client/stream of the reader is open
  requests,       \* number of upstream HTTP requests opened
  pc,             \* where the stream_chat_completion generator stands
  exit,           \* how stream_chat_completion ended: "none", "return", "CancelledError"
  chunk_count,    \* the session's chunk counter
  events,         \* the SSE events the session has yielded, in order
  cancelMark,     \* what had been emitted and pulled when the client first cancelled
  peer,           \* the locals of a second session, suspended while this one runs
  reply           \* a non-streaming call: the text collected and the HTTP answer

trackerVars == <<tracker, limits, calls>>
sessionVars == <<user_api_key, response, received, upstreamEnd, rpc, connOpen, requests,
                 pc, exit, chunk_count, events, cancelMark>>
vars == <<tracker, limits, calls, user_api_key, response, received, upstreamEnd, rpc,
          connOpen, requests, pc, exit, chunk_count, events, cancelMark, peer, reply>>

(***************************************************************************)
(* Bounds of the model                                                     *)
(***************************************************************************)
MaxFeeds == 4           \* process_chunk calls per tracker
MaxLines == 3           \* body lines the provider delivers outside the end-to-end scenario
MaxWindowFeeds == 6     \* process_chunk calls per tracker when its window is filled
MaxCapFeeds == 6        \* process_chunk calls per tracker under the scaled cap
ScaledCap == 10         \* the cap on accumulated_content, scaled down from 10000
ScaledKeep == 5         \* the retained tail, scaled down from 5000
MaxScanFeeds == 4       \* process_chunk calls per tracker when chunks of every shape are fed
MaxLoopChunks == 3      \* chunks handed to the loop of the session by its reader
MaxPairLines == 2       \* body lines per session when two sessions run together

(***************************************************************************)
(* Program constants                                                       *)
(***************************************************************************)
MaxChunksToTrack == 5   \* self.max_chunks_to_track
WindowSize == 50        \* self.window_size (never read)
AccumulatedCap == 10000 \* len(self.accumulated_content) > 10000
AccumulatedKeep == 5000 \* self.accumulated_content[-5000:]
MaxOverlap == 20        \* min(overlap_size, 20)
MinOverlap == 3         \* range(..., 2, -1) stops after 3

(***************************************************************************)
(* Integer helpers                                                         *)
(***************************************************************************)
Min2(a, b) == IF a <= b THEN a ELSE b
MaxOf(S) == CHOOSE m \in S : \A n \in S : n <= m
MinOf(S) == CHOOSE m \in S : \A n \in S : m <= n

(***************************************************************************)
(* Python str operations, on sequences of characters                       *)
(***************************************************************************)
IsSpace(ch) == ch \in {" ", "\n", "\t"}

\* s[:k]
FirstN(s, k) == SubSeq(s, 1, Min2(k, Len(s)))

\* s[-k:], k >= 1
LastN(s, k) == IF k >= Len(s) THEN s ELSE SubSeq(s, Len(s) - k + 1, Len(s))

\* s[k:]
DropN(s, k) == SubSeq(s, k + 1, Len(s))

\* needle in hay
Contains(hay, needle) ==
  \E i \in 0..(Len(hay) - Len(needle)) : SubSeq(hay, i + 1, i + Len(needle)) = needle

\* s.strip()
Strip(s) ==
  LET keep == {i \in 1..Len(s) : ~IsSpace(s[i])}
  IN IF keep = {} THEN <<>> ELSE SubSeq(s, MinOf(keep), MaxOf(keep))

(***************************************************************************)
(* JSON values as Python sees them after json.loads                        *)
(***************************************************************************)
JNull == [t |-> "null"]
JNum(n) == [t |-> "num", n |-> n]
JStr(s) == [t |-> "str", s |-> s]
JList(xs) == [t |-> "list", items |-> xs]
JDict(f) == [t |-> "dict", d |-> f]

\* the characters of the keys the code looks up (for `key in <str>`)
KeyChars(key) ==
  CASE key = "choices" -> <<"c", "h", "o", "i", "c", "e", "s">>
    [] key = "delta" -> <<"d", "e", "l", "t", "a">>
    [] key = "content" -> <<"c", "o", "n", "t", "e", "n", "t">>
    [] key = "message" -> <<"m", "e", "s", "s", "a", "g", "e">>
    [] OTHER -> <<key>>

\* `key in v` is defined (no TypeError) for dict, str and list
PyCanContain(v) == v.t \in {"dict", "str", "list"}

\* `key in v`
PyIn(key, v) ==
  CASE v.t = "dict" -> key \in DOMAIN v.d
    [] v.t = "str" -> Contains(v.s, KeyChars(key))
    [] v.t = "list" -> \E i \in 1..Len(v.items) : v.items[i] = JStr(KeyChars(key))
    [] OTHER -> FALSE

\* bool(v)
PyTruthy(v) ==
  CASE v.t = "null" -> FALSE
    [] v.t = "num" -> v.n # 0
    [] v.t = "str" -> v.s # <<>>
    [] v.t = "list" -> v.items # <<>>
    [] v.t = "dict" -> DOMAIN v.d # {}
    [] OTHER -> TRUE

\* a chunk of the incremental-delta shape carrying text
DeltaChunk(text) ==
  JDict([choices |-> JList(<<JDict([delta |-> JDict([content |-> JStr(text)])])>>)])

\* a chunk of the full-message shape carrying content
MessageChunk(id, model, content) ==
  JDict([id |-> id, model |-> model,
         choices |-> JList(<<JDict([message |-> JDict([content |-> content])])>>)])

(***************************************************************************)
(* DuplicateContentTracker                                                 *)
(***************************************************************************)
\* __init__
NewTracker ==
  [accumulated_content |-> <<>>,
   last_chunks |-> <<>>,
   max_chunks_to_track |-> MaxChunksToTrack,
   window_size |-> WindowSize]

\* a truncation that retains as many characters as the cap allows
TruncateAccumulatedToCap(acc, lim) ==
  IF Len(acc) > lim.cap THEN LastN(acc, lim.cap) ELSE acc

\* the sliding window on accumulated_content
TruncateAccumulated(acc, lim) ==
  IF Len(acc) > lim.cap THEN LastN(acc, lim.keep) ELSE acc

\* the exact-duplicate test with the length threshold off by one
IsExactDuplicateOver3(current_content, acc) ==
  Len(current_content) > 3 /\ Contains(acc, current_content)

\* the exact-duplicate test
IsExactDuplicate(current_content, acc) ==
  Len(current_content) > 2 /\ Contains(acc, current_content)

\* the inner loop with range(..., 3, -1): overlaps of exactly 3 are not tried
OverlapFoundFrom4(prev_chunk, current_content) ==
  IF Len(prev_chunk) > 3 /\ Len(current_content) > 3
  THEN LET overlap_size == Min2(Len(prev_chunk), Len(current_content))
           hits == {i \in (MinOverlap + 1)..Min2(overlap_size, MaxOverlap) :
                      LastN(prev_chunk, i) = FirstN(current_content, i)}
       IN IF hits = {} THEN 0 ELSE MaxOf(hits)
  ELSE 0

\* the inner loop without the limit of 20 on the overlap tried
OverlapFoundUncapped(prev_chunk, current_content) ==
  IF Len(prev_chunk) > 3 /\ Len(current_content) > 3
  THEN LET overlap_size == Min2(Len(prev_chunk), Len(current_content))
           hits == {i \in MinOverlap..overlap_size :
                      LastN(prev_chunk, i) = FirstN(current_content, i)}
       IN IF hits = {} THEN 0 ELSE MaxOf(hits)
  ELSE 0

\* the inner loop over overlap sizes: the first (largest) i at which the end of
\* prev_chunk equals the start of current_content, 0 when there is none
OverlapFound(prev_chunk, current_content) ==
  IF Len(prev_chunk) > 3 /\ Len(current_content) > 3
  THEN LET overlap_size == Min2(Len(prev_chunk), Len(current_content))
           hits == {i \in MinOverlap..Min2(overlap_size, MaxOverlap) :
                      LastN(prev_chunk, i) = FirstN(current_content, i)}
       IN IF hits = {} THEN 0 ELSE MaxOf(hits)
  ELSE 0

\* the outer loop over last_chunks: `break` leaves the inner loop only, so every
\* previous chunk is examined and a later match overwrites an earlier trim
RECURSIVE ScanLastChunks(_, _, _)
ScanLastChunks(prevs, current_content, content) ==
  IF prevs = <<>> THEN content
  ELSE LET i == OverlapFound(Head(prevs), current_content)
       IN ScanLastChunks(Tail(prevs), current_content,
                         IF i > 0 THEN DropN(current_content, i) ELSE content)

\* the append without the pop(0): the window grows without bound
PushLastChunkUnbounded(self, current_content) ==
  Append(self.last_chunks, current_content)

\* the append with pop() in place of pop(0): the newest entry is evicted
PushLastChunkDropNewest(self, current_content) ==
  LET appended == Append(self.last_chunks, current_content)
  IN IF Len(appended) > self.max_chunks_to_track
     THEN SubSeq(appended, 1, self.max_chunks_to_track) ELSE appended

\* last_chunks.append(current_content), pop(0) beyond max_chunks_to_track
PushLastChunk(self, current_content) ==
  LET appended == Append(self.last_chunks, current_content)
  IN IF Len(appended) > self.max_chunks_to_track THEN Tail(appended) ELSE appended

\* choice['delta']['content'] = text, in place
SetDeltaContent(chunk_data, text) ==
  [chunk_data EXCEPT !.d.choices.items[1].d.delta.d.content = JStr(text)]

\* the body with the cap applied before the triviality filter
ProcessContentTruncatingFirst(self, chunk_data, current_content, lim) ==
  LET acc == TruncateAccumulated(self.accumulated_content, lim)
      truncated == [self EXCEPT !.accumulated_content = acc]
  IN IF Len(Strip(current_content)) <= 1
     THEN [self |-> truncated, chunk_data |-> chunk_data]
     ELSE IF IsExactDuplicate(current_content, acc)
     THEN [self |-> truncated, chunk_data |-> SetDeltaContent(chunk_data, <<>>)]
     ELSE LET content == ScanLastChunks(self.last_chunks, current_content,
                                        current_content)
          IN [self |-> [truncated EXCEPT
                          !.accumulated_content = acc \o content,
                          !.last_chunks = PushLastChunk(self, current_content)],
              chunk_data |-> SetDeltaContent(chunk_data, content)]

\* the body accumulating the untrimmed text and remembering the trimmed one
ProcessContentSwapped(self, chunk_data, current_content, lim) ==
  IF Len(Strip(current_content)) <= 1
  THEN [self |-> self, chunk_data |-> chunk_data]
  ELSE LET acc == TruncateAccumulated(self.accumulated_content, lim)
           truncated == [self EXCEPT !.accumulated_content = acc]
       IN IF IsExactDuplicate(current_content, acc)
          THEN [self |-> truncated, chunk_data |-> SetDeltaContent(chunk_data, <<>>)]
          ELSE LET content == ScanLastChunks(self.last_chunks, current_content,
                                             current_content)
               IN [self |-> [truncated EXCEPT
                               !.accumulated_content = acc \o current_content,
                               !.last_chunks = PushLastChunk(self, content)],
                   chunk_data |-> SetDeltaContent(chunk_data, content)]

\* The body of process_chunk once current_content is known to be non-empty text.
\* The result holds the tracker after the call and the chunk object, which is
\* both the argument (mutated in place) and the return value.
ProcessContent(self, chunk_data, current_content, lim) ==
  IF Len(Strip(current_content)) <= 1
  THEN [self |-> self, chunk_data |-> chunk_data]
  ELSE LET acc == TruncateAccumulated(self.accumulated_content, lim)
           truncated == [self EXCEPT !.accumulated_content = acc]
       IN IF IsExactDuplicate(current_content, acc)
          THEN [self |-> truncated, chunk_data |-> SetDeltaContent(chunk_data, <<>>)]
          ELSE LET content == ScanLastChunks(self.last_chunks, current_content,
                                             current_content)
               IN [self |-> [truncated EXCEPT
                               !.accumulated_content = acc \o content,
                               !.last_chunks = PushLastChunk(self, current_content)],
                   chunk_data |-> SetDeltaContent(chunk_data, content)]

\* a process_chunk that also takes in the text of a message-shape chunk
process_chunk_any_shape(self, chunk_data, lim) ==
  IF ~PyIn("choices", chunk_data) \/ ~PyTruthy(chunk_data.d.choices)
  THEN [self |-> self, chunk_data |-> chunk_data]
  ELSE LET choice == chunk_data.d.choices.items[1]
       IN IF /\ PyIn("delta", choice)
             /\ PyIn("content", choice.d.delta)
             /\ PyTruthy(choice.d.delta.d.content)
          THEN ProcessContent(self, chunk_data, choice.d.delta.d.content.s, lim)
          ELSE IF /\ PyIn("message", choice)
                  /\ PyIn("content", choice.d.message)
                  /\ PyTruthy(choice.d.message.d.content)
          THEN [self |-> [self EXCEPT
                            !.accumulated_content = @ \o choice.d.message.d.content.s,
                            !.last_chunks =
                               PushLastChunk(self, choice.d.message.d.content.s)],
                chunk_data |-> chunk_data]
          ELSE [self |-> self, chunk_data |-> chunk_data]

\* DuplicateContentTracker.process_chunk
process_chunk(self, chunk_data, lim) ==
  IF ~PyIn("choices", chunk_data) \/ ~PyTruthy(chunk_data.d.choices)
  THEN [self |-> self, chunk_data |-> chunk_data]
  ELSE LET choice == chunk_data.d.choices.items[1]
       IN IF \/ ~PyIn("delta", choice)
             \/ ~PyIn("content", choice.d.delta)
             \/ ~PyTruthy(choice.d.delta.d.content)
          THEN [self |-> self, chunk_data |-> chunk_data]
          ELSE ProcessContent(self, chunk_data, choice.d.delta.d.content.s, lim)

\* the text a delta-shape chunk carries (empty when it carries none)
DeltaText(chunk_data) ==
  IF /\ PyIn("choices", chunk_data) /\ PyTruthy(chunk_data.d.choices)
     /\ PyIn("delta", chunk_data.d.choices.items[1])
     /\ PyIn("content", chunk_data.d.choices.items[1].d.delta)
  THEN chunk_data.d.choices.items[1].d.delta.d.content.s
  ELSE <<>>

(***************************************************************************)
(* Fragment texts fed to the tracker                                       *)
(***************************************************************************)
HelloWor == <<"h", "e", "l", "l", "o", " ", "w", "o", "r">>
World == <<"w", "o", "r", "l", "d">>
Abc == <<"a", "b", "c">>
Abcd == <<"a", "b", "c", "d">>
PadX == <<" ", " ", " ", "x">>
AbPad == <<"a", "b", " ", " ", " ">>
\* 21 distinct characters beginning with the end of Abcd
Bcd21 == <<"b", "c", "d", "e", "f", "g", "h", "i", "j", "k", "l", "m", "n", "o",
           "p", "q", "r", "s", "t", "u", "v">>
\* 21 equal characters, and the same followed by one more
A21 == [i \in 1..21 |-> "a"]
A21Bang == A21 \o <<"!">>
\* the fragments of the end-to-end scenario
The == <<"T", "h", "e", " ">>
Quick == <<"q", "u", "i", "c", "k", " ">>
BrownFox == <<"b", "r", "o", "w", "n", " ", "f", "o", "x">>
Ab == <<"a", "b">>
\* two fragments whose ends both begin "abcdef", by 4 and by 3 characters
XxAbcd == <<"x", "x", "a", "b", "c", "d">>
YyAbc == <<"y", "y", "a", "b", "c">>
Abcdef == <<"a", "b", "c", "d", "e", "f">>

Fragments == {HelloWor, World, Abc, Abcd, PadX, AbPad, Bcd21, A21, A21Bang, <<"a">>}

TrackerChunks ==
  {DeltaChunk(f) : f \in Fragments}
    \cup {MessageChunk(JStr(<<>>), JStr(<<"m">>), JStr(Abc)), JDict([choices |-> JList(<<>>)])}

(***************************************************************************)
(* Text the code formats into diagnostics.  A literal of the source is one *)
(* element; values that arrive at run time keep their own elements.        *)
(***************************************************************************)
DigitChar(d) == <<"0", "1", "2", "3", "4", "5", "6", "7", "8", "9">>[d + 1]

\* str(n) for n >= 0
RECURSIVE Digits(_)
Digits(n) == IF n < 10 THEN <<DigitChar(n)>> ELSE Digits(n \div 10) \o <<DigitChar(n % 10)>>

\* str(v) as an f-string renders a JSON value
PyStr(v) ==
  CASE v.t = "str" -> v.s
    [] v.t = "num" -> Digits(v.n)
    [] v.t = "null" -> <<"None">>
    [] OTHER -> <<"<repr>">>

\* HTTPException(status_code, detail)
HTTPException(status_code, detail) == [status_code |-> status_code, detail |-> detail]

\* str(e) of an HTTPException: "<status_code>: <detail>"
StrHTTPException(e) == Digits(e.status_code) \o <<": ">> \o e.detail

(***************************************************************************)
(* generate_chat_completion: the upstream reader                           *)
(***************************************************************************)
NonAscii == {"\\u00e9"}

\* user_api_key.encode('ascii') succeeds
IsAsciiKey(key) == \A i \in 1..Len(key) : key[i] \notin NonAscii

\* the checks made before the request is built
ApiKeyError(key) ==
  IF key = <<>>
  THEN <<HTTPException(400,
           <<"No API key set. Please set your OpenRouter API key in Settings.">>)>>
  ELSE IF ~IsAsciiKey(key)
  THEN <<HTTPException(400,
           <<"API key contains invalid characters. Please check your API key.">>)>>
  ELSE <<>>

\* d.get(key, default) on a JSON value: a one-element tuple, or <<>> for the
\* AttributeError a non-dict raises
PyGet(v, key, default) ==
  IF v.t # "dict" THEN <<>>
  ELSE IF key \in DOMAIN v.d THEN <<v.d[key]>> ELSE <<default>>

\* The error_detail computed from the body of a non-200 response:
\* [kind |-> "detail", text |-> ...], or the exception that leaves the inner try:
\* [kind |-> "UnicodeDecodeError"] when json.loads is given bytes that are not
\* UTF-8, [kind |-> "TypeError"] when appending the provider message to a detail
\* that is not a str raises.
ErrorDetail(body) ==
  LET fallback == [kind |-> "detail", text |-> body.text]
  IN IF ~body.utf8 THEN [kind |-> "UnicodeDecodeError"]
     ELSE IF ~body.json THEN fallback
     ELSE LET err == PyGet(body.data, "error", JDict(<<>>))
          IN IF err = <<>> THEN fallback
             ELSE LET msg == PyGet(err[1], "message", JStr(<<"An unknown error occurred.">>))
                  IN IF msg = <<>> THEN fallback
                     ELSE LET meta == PyGet(err[1], "metadata", JDict(<<>>))
                          IN IF meta = <<>> THEN fallback
                             ELSE LET raw == PyGet(meta[1], "raw", JNull)
                                  IN IF raw = <<>> THEN fallback
                                     ELSE LET detail == IF PyTruthy(raw[1]) THEN raw[1] ELSE msg[1]
                                              prov == PyGet(err[1], "provider_error", JDict(<<>>))
                                          IN IF ~PyTruthy(prov[1])
                                             THEN [kind |-> "detail", text |-> PyStr(detail)]
                                             ELSE LET pm == PyGet(prov[1], "message", JStr(<<>>))
                                                  IN IF pm = <<>> THEN fallback
                                                     ELSE IF ~PyTruthy(pm[1])
                                                     THEN [kind |-> "detail", text |-> PyStr(detail)]
                                                     ELSE IF detail.t = "list" THEN [kind |-> "detail", text |-> <<"<repr>">>]
                                                     ELSE IF detail.t # "str" THEN [kind |-> "TypeError"]
                                                     ELSE [kind |-> "detail",
                                                           text |-> detail.s \o <<" (Provider: ">>
                                                                      \o PyStr(pm[1]) \o <<")">>]

\* a reader that reports the status but drops the provider's detail
StatusErrorGeneric(status_code, body) ==
  HTTPException(500, <<"OpenRouter Error (HTTP ">> \o Digits(status_code) \o <<")">>)

\* the exception the reader raises for a response whose status is not 200
StatusError(status_code, body) ==
  LET d == ErrorDetail(body)
  IN IF d.kind # "detail"
     THEN HTTPException(500, <<"Unexpected error: ", d.kind>>)
     ELSE HTTPException(500, <<"OpenRouter Error (HTTP ">> \o Digits(status_code)
                               \o <<"): ">> \o d.text)

\* the exception the reader raises for httpx.RequestError / asyncio.TimeoutError
TransportError(what) ==
  HTTPException(500, <<"Error connecting to OpenRouter API: ", what>>)

\* the exception the reader raises for any other Exception
UnexpectedError(what) == HTTPException(500, <<"Unexpected error: ", what>>)

\* What the reader does with a parsed chunk: yield a message-shape chunk, skip
\* the line, or raise the exception a lookup on the wrong type raises.
ChunkOutcome(chunk, model) ==
  LET skip == [kind |-> "skip"]
      raise(what) == [kind |-> "raise", what |-> what]
  IN IF ~PyCanContain(chunk) THEN raise("TypeError")
     ELSE IF ~PyIn("choices", chunk) THEN skip
     ELSE IF chunk.t # "dict" THEN raise("TypeError")
     ELSE LET choices == chunk.d.choices
          IN IF ~PyTruthy(choices) THEN skip
             ELSE IF choices.t = "dict" THEN raise("KeyError")
             ELSE IF choices.t \notin {"list", "str"} THEN raise("TypeError")
             ELSE LET first == IF choices.t = "list" THEN choices.items[1]
                                                    ELSE JStr(<<choices.s[1]>>)
                  IN IF ~PyCanContain(first) THEN raise("TypeError")
                     ELSE IF ~PyIn("delta", first) THEN skip
                     ELSE IF first.t # "dict" THEN raise("TypeError")
                     ELSE LET delta == first.d.delta
                          IN IF ~PyCanContain(delta) THEN raise("TypeError")
                             ELSE IF ~PyIn("content", delta) THEN skip
                             ELSE IF delta.t # "dict" THEN raise("TypeError")
                             ELSE IF ~PyTruthy(delta.d.content) THEN skip
                             ELSE [kind |-> "yield",
                                   chunk |-> MessageChunk(PyGet(chunk, "id", JStr(<<>>))[1],
                                                          model, delta.d.content)]

\* a reader that takes the [DONE] sentinel for one more line to skip
LineOutcomeIgnoringDone(line, model) ==
  IF line.blank \/ ~line.prefix THEN [kind |-> "skip"]
  ELSE IF line.payload.k \in {"done", "garbage"} THEN [kind |-> "skip"]
  ELSE ChunkOutcome(line.payload.v, model)

\* What the reader does with one line of the body.
LineOutcome(line, model) ==
  IF line.blank \/ ~line.prefix THEN [kind |-> "skip"]
  ELSE IF line.payload.k = "done" THEN [kind |-> "break"]
  ELSE IF line.payload.k = "garbage" THEN [kind |-> "skip"]
  ELSE ChunkOutcome(line.payload.v, model)

(***************************************************************************)
(* stream_chat_completion: the SSE session                                 *)
(***************************************************************************)
MessageEvent(content) == [event |-> "message", data |-> [content |-> content]]
DoneEvent == [event |-> "done", data |-> [status |-> "complete"]]
CancelledEvent == [event |-> "error", data |-> [error |-> <<"Request was cancelled">>]]
ErrorEvent(e) == [event |-> "error", data |-> [error |-> StrHTTPException(e)]]

\* a consumer that sees the newest event first
EmitFirst(evs, ev) == <<ev>> \o evs

\* the event the generator hands to its consumer at a yield
Emit(evs, ev) == Append(evs, ev)

\* an extraction that knows the delta shape only
ExtractContentDeltaOnly(chunk) ==
  IF ~PyTruthy(chunk) \/ ~PyTruthy(PyGet(chunk, "choices", JList(<<>>))[1]) THEN <<>>
  ELSE LET choice == chunk.d.choices.items[1]
           content ==
             IF PyIn("delta", choice) /\ PyIn("content", choice.d.delta)
             THEN choice.d.delta.d.content
             ELSE JStr(<<>>)
       IN IF ~PyTruthy(content) THEN <<>> ELSE <<content>>

\* an extraction that looks at the message shape before the delta shape
ExtractContentMessageFirst(chunk) ==
  IF ~PyTruthy(chunk) \/ ~PyTruthy(PyGet(chunk, "choices", JList(<<>>))[1]) THEN <<>>
  ELSE LET choice == chunk.d.choices.items[1]
           content ==
             IF PyIn("message", choice) /\ PyIn("content", choice.d.message)
             THEN choice.d.message.d.content
             ELSE IF PyIn("delta", choice) /\ PyIn("content", choice.d.delta)
             THEN choice.d.delta.d.content
             ELSE JStr(<<>>)
       IN IF ~PyTruthy(content) THEN <<>> ELSE <<content>>

\* The content the loop body extracts from a chunk the reader yielded:
\* <<content>>, or <<>> when the body `continue`s without yielding.
ExtractContent(chunk) ==
  IF ~PyTruthy(chunk) \/ ~PyTruthy(PyGet(chunk, "choices", JList(<<>>))[1]) THEN <<>>
  ELSE LET choice == chunk.d.choices.items[1]
           content ==
             IF PyIn("delta", choice) /\ PyIn("content", choice.d.delta)
             THEN choice.d.delta.d.content
             ELSE IF PyIn("message", choice) /\ PyIn("content", choice.d.message)
             THEN choice.d.message.d.content
             ELSE JStr(<<>>)
       IN IF ~PyTruthy(content) THEN <<>> ELSE <<content>>

\* a session that lets the exception end the generator without an event
OnExceptionSilent(e) ==
  /\ pc' = "finished"
  /\ events' = events

\* a session that answers a failure by starting over with a new request
OnExceptionRetry(e) ==
  IF requests <= 1
  THEN /\ pc' = "unstarted"
       /\ events' = events
  ELSE /\ pc' = "yield_error"
       /\ events' = Emit(events, ErrorEvent(e))

\* the outer `except Exception` of the session: one error event carrying str(e)
OnException(e) ==
  /\ pc' = "yield_error"
  /\ events' = Emit(events, ErrorEvent(e))

\* the `async for` is exhausted: the done event is yielded
OnReaderEnd ==
  /\ pc' = "yield_done"
  /\ events' = Emit(events, DoneEvent)

\* a session that answers a cancellation like a normal end
OnCancelledAsDone ==
  /\ pc' = "yield_cancelled"
  /\ events' = Emit(events, DoneEvent)

\* the inner `except asyncio.CancelledError`: one error event, then return
OnCancelled ==
  /\ pc' = "yield_cancelled"
  /\ events' = Emit(events, CancelledEvent)

\* the next position of session and reader after the loop body ran on a chunk
OnChunk(chunk) ==
  /\ chunk_count' = chunk_count + 1
  /\ LET content == ExtractContent(chunk)
     IN IF content = <<>>
        THEN /\ pc' = "await_chunk"
             /\ rpc' = "await_line"
             /\ events' = events
        ELSE /\ pc' = "yield_message"
             /\ rpc' = "at_yield"
             /\ events' = Emit(events, MessageEvent(content[1]))

(***************************************************************************)
(* What the provider may send                                              *)
(***************************************************************************)
RequestModel == JStr(<<"m">>)

BlankLine == [blank |-> TRUE, prefix |-> FALSE, payload |-> [k |-> "none"]]
CommentLine == [blank |-> FALSE, prefix |-> FALSE, payload |-> [k |-> "none"]]
DoneLine == [blank |-> FALSE, prefix |-> TRUE, payload |-> [k |-> "done"]]
GarbageLine == [blank |-> FALSE, prefix |-> TRUE, payload |-> [k |-> "garbage"]]
JsonLine(v) == [blank |-> FALSE, prefix |-> TRUE, payload |-> [k |-> "json", v |-> v]]
ContentLine(text) == JsonLine(DeltaChunk(text))

NumberLine == JsonLine(JNum(5))
StringLine == JsonLine(JStr(<<"h", "i">>))
NoChoicesLine == JsonLine(JDict([id |-> JStr(<<"x">>)]))
ChoicesOfNumbersLine == JsonLine(JDict([choices |-> JList(<<JNum(1)>>)]))
MessageShapeLine == JsonLine(MessageChunk(JStr(<<"x">>), RequestModel, JStr(Abc)))
EmptyDeltaLine == JsonLine(DeltaChunk(<<>>))

LinePool ==
  {BlankLine, CommentLine, DoneLine, GarbageLine, NumberLine, StringLine, NoChoicesLine,
   ChoicesOfNumbersLine, MessageShapeLine, EmptyDeltaLine, ContentLine(Abc),
   ContentLine(World)}

\* the end-to-end scenario: "The ", "quick ", "quick ", "brown fox", [DONE]
ScenarioLines ==
  <<ContentLine(The), ContentLine(Quick), ContentLine(Quick), ContentLine(BrownFox), DoneLine>>

\* the lines the provider may deliver next
NextLines(got) ==
  (IF Len(got) < MaxLines THEN LinePool ELSE {})
    \cup (IF Len(got) < Len(ScenarioLines) /\ got = SubSeq(ScenarioLines, 1, Len(got))
          THEN {ScenarioLines[Len(got) + 1]} ELSE {})

InvalidApiKey == <<"invalid api key">>
RawDetail == <<"upstream provider said no">>
ProviderMessage == <<"quota exhausted">>
ErrorObject(fields) == JDict([error |-> JDict(fields)])

\* a body that is not valid UTF-8 (an error page in another encoding)
NotUtf8Body == [utf8 |-> FALSE, json |-> FALSE, text |-> <<"<html>Bad Gateway</html>">>,
                data |-> JNull]

\* error.metadata.raw is a number and the provider adds its own message
RawNumberBody ==
  [utf8 |-> TRUE, json |-> TRUE, text |-> <<"{...}">>,
   data |-> ErrorObject([message |-> JStr(InvalidApiKey),
                         metadata |-> JDict([raw |-> JNum(429)]),
                         provider_error |-> JDict([message |-> JStr(ProviderMessage)])])]

ErrorBodies ==
  {NotUtf8Body, RawNumberBody,
   [utf8 |-> TRUE, json |-> FALSE, text |-> <<"<html>Bad Gateway</html>">>, data |-> JNull],
   [utf8 |-> TRUE, json |-> TRUE, text |-> <<"{\"error\": {\"message\": \"">> \o InvalidApiKey \o <<"\"}}">>,
    data |-> ErrorObject([message |-> JStr(InvalidApiKey)])],
   [utf8 |-> TRUE, json |-> TRUE, text |-> <<"{...}">>,
    data |-> ErrorObject([message |-> JStr(InvalidApiKey),
                          metadata |-> JDict([raw |-> JStr(RawDetail)])])],
   [utf8 |-> TRUE, json |-> TRUE, text |-> <<"{...}">>,
    data |-> ErrorObject([message |-> JStr(InvalidApiKey),
                          metadata |-> JDict([raw |-> JStr(<<>>)])])],
   [utf8 |-> TRUE, json |-> TRUE, text |-> <<"{...}">>,
    data |-> ErrorObject([message |-> JStr(InvalidApiKey),
                          provider_error |-> JDict([message |-> JStr(ProviderMessage)])])],
   [utf8 |-> TRUE, json |-> TRUE, text |-> <<"{...}">>,
    data |-> ErrorObject([message |-> JStr(InvalidApiKey),
                          metadata |-> JDict([raw |-> JStr(RawDetail)]),
                          provider_error |-> JDict([message |-> JStr(ProviderMessage)])])],
   [utf8 |-> TRUE, json |-> TRUE, text |-> <<"{\"error\": \"">> \o InvalidApiKey \o <<"\"}">>,
    data |-> JDict([error |-> JStr(InvalidApiKey)])]}

NoBody == [utf8 |-> TRUE, json |-> FALSE, text |-> <<>>, data |-> JNull]
NoResponse == [status |-> 0, body |-> NoBody]

Responses ==
  {[status |-> 200, body |-> NoBody]}
    \cup {[status |-> s, body |-> b] : s \in {401, 503}, b \in ErrorBodies}

ApiKeys == {<<"k">>, <<>>, <<"\\u00e9">>}

(***************************************************************************)
(* chat_completion: the route, up to the choice of its response            *)
(***************************************************************************)
\* current_user.api_key as stored: None or "", a Fernet token of a key, or a
\* string that is no token of this installation
NoStoredKey == [t |-> "none"]
Encrypted(plain) == [t |-> "fernet", plain |-> plain]
CorruptToken == [t |-> "corrupt"]

StoredKeys == {NoStoredKey, CorruptToken} \cup {Encrypted(key) : key \in ApiKeys}

\* fernet.decrypt(encrypted_key.encode()).decode(): <<plain>>, or <<>> when
\* InvalidToken is raised
decrypt_api_key(encrypted_key) ==
  IF encrypted_key.t = "fernet" THEN <<encrypted_key.plain>> ELSE <<>>

\* what the route answers before any completion is read: an HTTPException, or
\* the streaming response that holds stream_chat_completion(request, api_key),
\* or the non-streaming branch
chat_completion(api_key, stream) ==
  IF api_key = NoStoredKey
  THEN [kind |-> "HTTPException", e |-> HTTPException(400, <<"No API key set for user.">>)]
  ELSE LET plain == decrypt_api_key(api_key)
       IN IF plain = <<>>
          THEN [kind |-> "HTTPException",
                e |-> HTTPException(500, <<"Failed to decrypt API key.">>)]
          ELSE IF stream
          THEN [kind |-> "EventSourceResponse", user_api_key |-> plain[1]]
          ELSE [kind |-> "completion", user_api_key |-> plain[1]]

(***************************************************************************)
(* Initial states                                                          *)
(***************************************************************************)
TrackerIdle ==
  /\ tracker = NewTracker
  /\ limits = [cap |-> AccumulatedCap, keep |-> AccumulatedKeep]
  /\ calls = <<>>

SessionCreated ==
  /\ response = NoResponse
  /\ received = <<>>
  /\ upstreamEnd = "open"
  /\ rpc = "unstarted"
  /\ connOpen = FALSE
  /\ requests = 0
  /\ pc = "unstarted"
  /\ exit = "none"
  /\ chunk_count = 0
  /\ events = <<>>
  /\ cancelMark = [set |-> FALSE, events |-> 0, received |-> 0]

\* there is no second session
NoPeer == <<>>

\* no non-streaming call has collected or answered anything
NoReply == [full_response |-> <<>>, status |-> 0, content |-> <<>>, detail |-> <<>>]

\* a streaming request has been accepted: EventSourceResponse holds the generator
Init ==
  /\ TrackerIdle
  /\ SessionCreated
  /\ peer = NoPeer
  /\ reply = NoReply
  /\ \E stored \in StoredKeys :
       LET r == chat_completion(stored, TRUE)
       IN r.kind = "EventSourceResponse" /\ user_api_key = r.user_api_key

\* a tracker alone, driven by an arbitrary caller
TrackerInit ==
  /\ TrackerIdle
  /\ SessionCreated
  /\ user_api_key = <<"k">>
  /\ peer = NoPeer
  /\ reply = NoReply

(***************************************************************************)
(* The tracker driven by an arbitrary caller                               *)
(***************************************************************************)
\* One call tracker.process_chunk(chunk_data) by a caller that makes at most
\* `most`.  The object returned is the object passed: `ret` is what the call
\* returns and `arg_after` what the caller's own reference holds afterwards.
Call(chunk_data, most) ==
  /\ Len(calls) < most
  /\ LET r == process_chunk(tracker, chunk_data, limits)
     IN /\ tracker' = r.self
        /\ calls' = Append(calls, [arg |-> chunk_data, ret |-> r.chunk_data,
                                   arg_after |-> r.chunk_data,
                                   before |-> tracker, after |-> r.self])
  /\ UNCHANGED limits
  /\ UNCHANGED <<sessionVars, peer, reply>>

Feed(chunk_data) == Call(chunk_data, MaxFeeds)

TrackerNext == \E chunk_data \in TrackerChunks : Feed(chunk_data)

TrackerSpec == TrackerInit /\ [][TrackerNext]_vars

(***************************************************************************)
(* The tracker fed long enough to fill its window of recent fragments      *)
(***************************************************************************)
\* short fragments: one of two characters, which is never an exact duplicate;
\* one contained in another; one that trims to a single character
WindowFragments == {Ab, Abc, Abcd, World, HelloWor, Quick, PadX}

FeedFragment(text) == Call(DeltaChunk(text), MaxWindowFeeds)

WindowNext == \E text \in WindowFragments : FeedFragment(text)

WindowSpec == TrackerInit /\ [][WindowNext]_vars

(***************************************************************************)
(* The tracker given chunks of every shape, and fragments that overlap     *)
(* more than one remembered fragment                                       *)
(***************************************************************************)
ScanChunks ==
  {DeltaChunk(XxAbcd), DeltaChunk(YyAbc), DeltaChunk(Abcdef),
   MessageChunk(JStr(<<"x">>), JStr(<<"m">>), JStr(Abcdef)),
   DeltaChunk(<<>>),
   JDict([id |-> JStr(<<"x">>)]),
   JDict([choices |-> JList(<<>>)])}

FeedChunk(chunk_data) == Call(chunk_data, MaxScanFeeds)

ScanNext == \E chunk_data \in ScanChunks : FeedChunk(chunk_data)

ScanSpec == TrackerInit /\ [][ScanNext]_vars

(***************************************************************************)
(* The tracker with the cap on accumulated_content and the retained tail   *)
(* scaled down in proportion (2 : 1); everything else as in the code       *)
(***************************************************************************)
CapFragments == {Ab, World, HelloWor, Quick, PadX}

CapInit ==
  /\ tracker = NewTracker
  /\ limits = [cap |-> ScaledCap, keep |-> ScaledKeep]
  /\ calls = <<>>
  /\ SessionCreated
  /\ user_api_key = <<"k">>
  /\ peer = NoPeer
  /\ reply = NoReply

FeedText(text) == Call(DeltaChunk(text), MaxCapFeeds)

CapNext == \E text \in CapFragments : FeedText(text)

CapSpec == CapInit /\ [][CapNext]_vars

(***************************************************************************)
(* A streaming session: the consumer drives stream_chat_completion, which  *)
(* drives generate_chat_completion, which awaits the provider.             *)
(*   pc:  "unstarted", "await_chunk" (suspended in the reader's await),    *)
(*        "yield_message", "sleep", "yield_done", "yield_cancelled",       *)
(*        "yield_error", "finished"                                        *)
(*   rpc: "unstarted", "await_response", "await_line", "at_yield",         *)
(*        "ended" (StopAsyncIteration), "raised" (HTTPException),          *)
(*        "cancelled" (CancelledError went through it), "closed" (aclose)  *)
(***************************************************************************)
\* leaving both `async with` blocks closes the stream and the client
CloseConnection == connOpen' = FALSE

\* The consumer asks for the first event: the session enters its loop and the
\* reader runs up to the POST, or raises on a bad credential.
Start ==
  /\ pc = "unstarted"
  /\ LET bad == ApiKeyError(user_api_key)
     IN IF bad # <<>>
        THEN /\ rpc' = "raised"
             /\ OnException(bad[1])
             /\ UNCHANGED <<connOpen, requests>>
        ELSE /\ rpc' = "await_response"
             /\ connOpen' = TRUE
             /\ requests' = requests + 1
             /\ pc' = "await_chunk"
             /\ events' = events
  /\ UNCHANGED <<user_api_key, response, received, upstreamEnd, exit, chunk_count,
                 cancelMark>>
  /\ UNCHANGED <<trackerVars, peer, reply>>

\* The provider answers the POST; a status other than 200 is read and raised.
UpstreamResponds(r) ==
  /\ rpc = "await_response"
  /\ pc = "await_chunk"
  /\ response' = r
  /\ IF r.status = 200
     THEN /\ rpc' = "await_line"
          /\ UNCHANGED <<connOpen, pc, events>>
     ELSE /\ rpc' = "raised"
          /\ CloseConnection
          /\ OnException(StatusError(r.status, r.body))
  /\ UNCHANGED <<user_api_key, received, upstreamEnd, requests, exit, chunk_count,
                 cancelMark>>
  /\ UNCHANGED <<trackerVars, peer, reply>>

\* The request fails before any response: httpx.ConnectError, httpx.ConnectTimeout.
ConnectFails(what) ==
  /\ rpc = "await_response"
  /\ pc = "await_chunk"
  /\ upstreamEnd' = what
  /\ rpc' = "raised"
  /\ CloseConnection
  /\ OnException(TransportError(what))
  /\ UNCHANGED <<user_api_key, response, received, requests, exit, chunk_count,
                 cancelMark>>
  /\ UNCHANGED <<trackerVars, peer, reply>>

\* The provider delivers one line; the reader handles it and, when it yields a
\* chunk, the session runs its loop body on it.
UpstreamLine(line) ==
  /\ rpc = "await_line"
  /\ pc = "await_chunk"
  /\ upstreamEnd = "open"
  /\ line \in NextLines(received)
  /\ received' = Append(received, line)
  /\ LET o == LineOutcome(line, RequestModel)
     IN CASE o.kind = "skip" ->
               UNCHANGED <<rpc, connOpen, pc, events, chunk_count>>
          [] o.kind = "break" ->
               /\ rpc' = "ended"
               /\ CloseConnection
               /\ OnReaderEnd
               /\ UNCHANGED chunk_count
          [] o.kind = "yield" ->
               /\ OnChunk(o.chunk)
               /\ UNCHANGED connOpen
          [] o.kind = "raise" ->
               /\ rpc' = "raised"
               /\ CloseConnection
               /\ OnException(UnexpectedError(o.what))
               /\ UNCHANGED chunk_count
  /\ UNCHANGED <<user_api_key, response, upstreamEnd, requests, exit, cancelMark>>
  /\ UNCHANGED <<trackerVars, peer, reply>>

\* The provider closes the body without [DONE]: the reader's loop is exhausted.
UpstreamCloses ==
  /\ rpc = "await_line"
  /\ pc = "await_chunk"
  /\ upstreamEnd = "open"
  /\ upstreamEnd' = "closed"
  /\ rpc' = "ended"
  /\ CloseConnection
  /\ OnReaderEnd
  /\ UNCHANGED <<user_api_key, response, received, requests, exit, chunk_count,
                 cancelMark>>
  /\ UNCHANGED <<trackerVars, peer, reply>>

\* The body breaks off: httpx.ReadError ("reset") or httpx.ReadTimeout ("timeout").
UpstreamFails(what) ==
  /\ rpc = "await_line"
  /\ pc = "await_chunk"
  /\ upstreamEnd = "open"
  /\ upstreamEnd' = what
  /\ rpc' = "raised"
  /\ CloseConnection
  /\ OnException(TransportError(what))
  /\ UNCHANGED <<user_api_key, response, received, requests, exit, chunk_count,
                 cancelMark>>
  /\ UNCHANGED <<trackerVars, peer, reply>>

\* The consumer asks for the next event after a message: the session reaches
\* `await asyncio.sleep(0.01)`.
ResumeAfterMessage ==
  /\ pc = "yield_message"
  /\ pc' = "sleep"
  /\ UNCHANGED <<user_api_key, response, received, upstreamEnd, rpc, connOpen, requests,
                 exit, chunk_count, events, cancelMark>>
  /\ UNCHANGED <<trackerVars, peer, reply>>

\* The pacing delay is over: the loop asks the reader for the next chunk, and the
\* reader goes on from its yield to await the next line.
SleepElapsed ==
  /\ pc = "sleep"
  /\ pc' = "await_chunk"
  /\ rpc' = "await_line"
  /\ UNCHANGED <<user_api_key, response, received, upstreamEnd, connOpen, requests,
                 exit, chunk_count, events, cancelMark>>
  /\ UNCHANGED <<trackerVars, peer, reply>>

\* The consumer asks for the next event after a terminal event: the generator
\* runs to its end.
ResumeAfterTerminal ==
  /\ pc \in {"yield_done", "yield_cancelled", "yield_error"}
  /\ pc' = "finished"
  /\ exit' = "return"
  /\ UNCHANGED <<user_api_key, response, received, upstreamEnd, rpc, connOpen, requests,
                 chunk_count, events, cancelMark>>
  /\ UNCHANGED <<trackerVars, peer, reply>>

\* The client cancels: CancelledError is raised at the point where the session
\* is suspended.  Inside the inner try it is caught and answered with an error
\* event; at the yield of an error event it leaves the generator.
Cancel ==
  /\ pc \in {"await_chunk", "yield_message", "sleep", "yield_done", "yield_cancelled",
             "yield_error"}
  /\ cancelMark' = IF cancelMark.set THEN cancelMark
                   ELSE [set |-> TRUE, events |-> Len(events), received |-> Len(received)]
  /\ IF pc = "await_chunk"
     THEN /\ rpc' = "cancelled"
          /\ CloseConnection
          /\ OnCancelled
          /\ UNCHANGED exit
     ELSE IF pc \in {"yield_message", "sleep", "yield_done"}
     THEN /\ OnCancelled
          /\ UNCHANGED <<rpc, connOpen, exit>>
     ELSE /\ pc' = "finished"
          /\ exit' = "CancelledError"
          /\ UNCHANGED <<rpc, connOpen, events>>
  /\ UNCHANGED <<user_api_key, response, received, upstreamEnd, requests, chunk_count>>
  /\ UNCHANGED <<trackerVars, peer, reply>>

\* The session left its loop while the reader was suspended at its yield: the
\* reader is no longer referenced and the event loop's async-generator finalizer
\* closes it (GeneratorExit at the yield leaves both `async with` blocks).
FinalizeReader ==
  /\ rpc = "at_yield"
  /\ pc \in {"yield_cancelled", "finished"}
  /\ rpc' = "closed"
  /\ CloseConnection
  /\ UNCHANGED <<user_api_key, response, received, upstreamEnd, requests, pc, exit,
                 chunk_count, events, cancelMark>>
  /\ UNCHANGED <<trackerVars, peer, reply>>

\* the steps of a session whose client stays connected
ConnectedNext ==
  \/ Start
  \/ \E r \in Responses : UpstreamResponds(r)
  \/ \E what \in {"connect_error", "timeout"} : ConnectFails(what)
  \/ \E line \in LinePool \cup {ScenarioLines[i] : i \in 1..Len(ScenarioLines)} :
       UpstreamLine(line)
  \/ UpstreamCloses
  \/ \E what \in {"reset", "timeout"} : UpstreamFails(what)
  \/ ResumeAfterMessage
  \/ SleepElapsed
  \/ ResumeAfterTerminal

Next ==
  \/ ConnectedNext
  \/ Cancel
  \/ FinalizeReader

Spec == Init /\ [][Next]_vars

\* The event loop runs the session whenever it can go on, the consumer keeps
\* asking for events, and the provider eventually delivers a line, closes, fails
\* or times out.
FairSpec == Init /\ [][ConnectedNext]_vars /\ WF_vars(ConnectedNext)

(***************************************************************************)
(* Two concurrent sessions on one event loop.  Each generator keeps its    *)
(* locals in its own frame; the loop runs one of them at a time and may    *)
(* change over whenever the running one is suspended at an await or yield. *)
(* The variables of the session hold the locals of the one that runs,      *)
(* `peer` those of the other; what the module keeps outside the frames     *)
(* (the tracker class) is not exchanged.                                   *)
(***************************************************************************)
\* the locals of the running session
Locals ==
  [user_api_key |-> user_api_key, response |-> response, received |-> received,
   upstreamEnd |-> upstreamEnd, rpc |-> rpc, connOpen |-> connOpen,
   requests |-> requests, pc |-> pc, exit |-> exit, chunk_count |-> chunk_count,
   events |-> events, cancelMark |-> cancelMark]

\* the locals of a session that has been created and not yet run
NewSession(key) ==
  [user_api_key |-> key, response |-> NoResponse, received |-> <<>>,
   upstreamEnd |-> "open", rpc |-> "unstarted", connOpen |-> FALSE, requests |-> 0,
   pc |-> "unstarted", exit |-> "none", chunk_count |-> 0, events |-> <<>>,
   cancelMark |-> [set |-> FALSE, events |-> 0, received |-> 0]]

\* a change-over that leaves chunk_count where it is, as a counter kept at module
\* level would be
SwitchSharingChunkCount ==
  /\ peer # NoPeer
  /\ peer' = Locals
  /\ user_api_key' = peer.user_api_key
  /\ response' = peer.response
  /\ received' = peer.received
  /\ upstreamEnd' = peer.upstreamEnd
  /\ rpc' = peer.rpc
  /\ connOpen' = peer.connOpen
  /\ requests' = peer.requests
  /\ pc' = peer.pc
  /\ exit' = peer.exit
  /\ chunk_count' = chunk_count
  /\ events' = peer.events
  /\ cancelMark' = peer.cancelMark
  /\ UNCHANGED <<trackerVars, reply>>

\* The event loop suspends the running session and resumes the other one.
Switch ==
  /\ peer # NoPeer
  /\ peer' = Locals
  /\ user_api_key' = peer.user_api_key
  /\ response' = peer.response
  /\ received' = peer.received
  /\ upstreamEnd' = peer.upstreamEnd
  /\ rpc' = peer.rpc
  /\ connOpen' = peer.connOpen
  /\ requests' = peer.requests
  /\ pc' = peer.pc
  /\ exit' = peer.exit
  /\ chunk_count' = peer.chunk_count
  /\ events' = peer.events
  /\ cancelMark' = peer.cancelMark
  /\ UNCHANGED <<trackerVars, reply>>

\* what the provider sends to the two sessions
PairKeys == {<<"k">>, <<>>}
PairLines == {ContentLine(Abc), ContentLine(World), DoneLine, NumberLine}
PairResponses ==
  {[status |-> 200, body |-> NoBody],
   [status |-> 401, body |-> [utf8 |-> TRUE, json |-> TRUE, text |-> <<"{...}">>,
                              data |-> ErrorObject([message |-> JStr(InvalidApiKey)])]]}

\* two streaming requests have been accepted
PairInit ==
  /\ TrackerIdle
  /\ SessionCreated
  /\ user_api_key \in PairKeys
  /\ \E key \in PairKeys : peer = NewSession(key)
  /\ reply = NoReply

PairNext ==
  \/ Start
  \/ \E r \in PairResponses : UpstreamResponds(r)
  \/ \E line \in PairLines : Len(received) < MaxPairLines /\ UpstreamLine(line)
  \/ UpstreamCloses
  \/ UpstreamFails("reset")
  \/ ResumeAfterMessage
  \/ SleepElapsed
  \/ ResumeAfterTerminal
  \/ Cancel
  \/ FinalizeReader
  \/ Switch

PairSpec == PairInit /\ [][PairNext]_vars

(***************************************************************************)
(* The loop of the session given chunks of every shape by its reader       *)
(***************************************************************************)
\* a first choice with both shapes, one whose delta content is empty beside a
\* message with content, and one with neither shape
BothShapesChunk ==
  JDict([choices |-> JList(<<JDict([delta |-> JDict([content |-> JStr(Abc)]),
                                    message |-> JDict([content |-> JStr(World)])])>>)])
EmptyDeltaBesideMessageChunk ==
  JDict([choices |-> JList(<<JDict([delta |-> JDict([content |-> JStr(<<>>)]),
                                    message |-> JDict([content |-> JStr(World)])])>>)])
NeitherShapeChunk == JDict([choices |-> JList(<<JDict([index |-> JNum(0)])>>)])

LoopChunks ==
  {DeltaChunk(Abc),
   MessageChunk(JStr(<<"x">>), RequestModel, JStr(World)),
   BothShapesChunk, EmptyDeltaBesideMessageChunk, NeitherShapeChunk,
   DeltaChunk(<<>>),
   JDict([id |-> JStr(<<"x">>)]),
   JDict([choices |-> JList(<<>>)])}

\* The reader hands a chunk to the `async for` of the session, which runs its
\* loop body on it; `received` keeps the chunk as the line that carried it.
ReaderYields(chunk) ==
  /\ rpc = "await_line"
  /\ pc = "await_chunk"
  /\ upstreamEnd = "open"
  /\ Len(received) < MaxLoopChunks
  /\ received' = Append(received, JsonLine(chunk))
  /\ OnChunk(chunk)
  /\ UNCHANGED <<user_api_key, response, upstreamEnd, connOpen, requests, exit, cancelMark>>
  /\ UNCHANGED <<trackerVars, peer, reply>>

LoopNext ==
  \/ Start
  \/ UpstreamResponds([status |-> 200, body |-> NoBody])
  \/ \E chunk \in LoopChunks : ReaderYields(chunk)
  \/ UpstreamCloses
  \/ ResumeAfterMessage
  \/ SleepElapsed
  \/ ResumeAfterTerminal

LoopSpec == TrackerInit /\ [][LoopNext]_vars

(***************************************************************************)
(* chat_completion with stream = false: the route itself iterates the      *)
(* reader, collects full_response and answers once.                        *)
(*   pc: "unstarted", "collect" (suspended in the reader's await),         *)
(*       "finished" (the route has answered)                               *)
(***************************************************************************)
\* the body of the route's `async for`: += for the delta shape, = for the
\* message shape
Collect(full_response, chunk) ==
  IF ~PyIn("choices", chunk) \/ ~PyTruthy(chunk.d.choices) THEN full_response
  ELSE LET choice == chunk.d.choices.items[1]
       IN IF PyIn("delta", choice) /\ PyIn("content", choice.d.delta)
          THEN full_response \o choice.d.delta.d.content.s
          ELSE IF PyIn("message", choice) /\ PyIn("content", choice.d.message)
          THEN choice.d.message.d.content.s
          ELSE full_response

\* a route that answers a failure with what it had collected
OnCompletionExceptionPartial(e) ==
  /\ pc' = "finished"
  /\ reply' = [reply EXCEPT !.status = 200, !.content = reply.full_response]

\* `except Exception as e: raise HTTPException(status_code=500, detail=str(e))`
OnCompletionException(e) ==
  /\ pc' = "finished"
  /\ reply' = [reply EXCEPT !.status = 500, !.detail = StrHTTPException(e)]

\* the reader is exhausted: the completion object is returned
OnCompletionEnd ==
  /\ pc' = "finished"
  /\ reply' = [reply EXCEPT !.status = 200, !.content = reply.full_response]

\* The route starts iterating the reader, which runs up to the POST or raises on
\* a bad credential.
CompletionStart ==
  /\ pc = "unstarted"
  /\ LET bad == ApiKeyError(user_api_key)
     IN IF bad # <<>>
        THEN /\ rpc' = "raised"
             /\ OnCompletionException(bad[1])
             /\ UNCHANGED <<connOpen, requests>>
        ELSE /\ rpc' = "await_response"
             /\ connOpen' = TRUE
             /\ requests' = requests + 1
             /\ pc' = "collect"
             /\ reply' = reply
  /\ UNCHANGED <<user_api_key, response, received, upstreamEnd, exit, chunk_count,
                 events, cancelMark>>
  /\ UNCHANGED <<trackerVars, peer>>

\* The provider answers the POST; a status other than 200 is read and raised.
CompletionResponds(r) ==
  /\ rpc = "await_response"
  /\ pc = "collect"
  /\ response' = r
  /\ IF r.status = 200
     THEN /\ rpc' = "await_line"
          /\ UNCHANGED <<connOpen, pc, reply>>
     ELSE /\ rpc' = "raised"
          /\ CloseConnection
          /\ OnCompletionException(StatusError(r.status, r.body))
  /\ UNCHANGED <<user_api_key, received, upstreamEnd, requests, exit, chunk_count,
                 events, cancelMark>>
  /\ UNCHANGED <<trackerVars, peer>>

\* The request fails before any response.
CompletionConnectFails(what) ==
  /\ rpc = "await_response"
  /\ pc = "collect"
  /\ upstreamEnd' = what
  /\ rpc' = "raised"
  /\ CloseConnection
  /\ OnCompletionException(TransportError(what))
  /\ UNCHANGED <<user_api_key, response, received, requests, exit, chunk_count,
                 events, cancelMark>>
  /\ UNCHANGED <<trackerVars, peer>>

\* The provider delivers one line; the reader handles it and, when it yields a
\* chunk, the route collects it and asks for the next.
CompletionLine(line) ==
  /\ rpc = "await_line"
  /\ pc = "collect"
  /\ upstreamEnd = "open"
  /\ line \in NextLines(received)
  /\ received' = Append(received, line)
  /\ LET o == LineOutcome(line, RequestModel)
     IN CASE o.kind = "skip" ->
               UNCHANGED <<rpc, connOpen, pc, reply>>
          [] o.kind = "break" ->
               /\ rpc' = "ended"
               /\ CloseConnection
               /\ OnCompletionEnd
          [] o.kind = "yield" ->
               /\ reply' = [reply EXCEPT !.full_response = Collect(@, o.chunk)]
               /\ UNCHANGED <<rpc, connOpen, pc>>
          [] o.kind = "raise" ->
               /\ rpc' = "raised"
               /\ CloseConnection
               /\ OnCompletionException(UnexpectedError(o.what))
  /\ UNCHANGED <<user_api_key, response, upstreamEnd, requests, exit, chunk_count,
                 events, cancelMark>>
  /\ UNCHANGED <<trackerVars, peer>>

\* The provider closes the body without [DONE].
CompletionCloses ==
  /\ rpc = "await_line"
  /\ pc = "collect"
  /\ upstreamEnd = "open"
  /\ upstreamEnd' = "closed"
  /\ rpc' = "ended"
  /\ CloseConnection
  /\ OnCompletionEnd
  /\ UNCHANGED <<user_api_key, response, received, requests, exit, chunk_count,
                 events, cancelMark>>
  /\ UNCHANGED <<trackerVars, peer>>

\* The body breaks off: httpx.ReadError ("reset") or httpx.ReadTimeout ("timeout").
CompletionFails(what) ==
  /\ rpc = "await_line"
  /\ pc = "collect"
  /\ upstreamEnd = "open"
  /\ upstreamEnd' = what
  /\ rpc' = "raised"
  /\ CloseConnection
  /\ OnCompletionException(TransportError(what))
  /\ UNCHANGED <<user_api_key, response, received, requests, exit, chunk_count,
                 events, cancelMark>>
  /\ UNCHANGED <<trackerVars, peer>>

\* a non-streaming request has passed the route's own checks
CompletionInit ==
  /\ TrackerIdle
  /\ SessionCreated
  /\ peer = NoPeer
  /\ reply = NoReply
  /\ \E stored \in StoredKeys :
       LET r == chat_completion(stored, FALSE)
       IN r.kind = "completion" /\ user_api_key = r.user_api_key

CompletionNext ==
  \/ CompletionStart
  \/ \E r \in Responses : CompletionResponds(r)
  \/ \E what \in {"connect_error", "timeout"} : CompletionConnectFails(what)
  \/ \E line \in LinePool \cup {ScenarioLines[i] : i \in 1..Len(ScenarioLines)} :
       CompletionLine(line)
  \/ CompletionCloses
  \/ \E what \in {"reset", "timeout"} : CompletionFails(what)

CompletionSpec == CompletionInit /\ [][CompletionNext]_vars

(***************************************************************************)
(* Claims about DuplicateContentTracker.process_chunk (under TrackerSpec)  *)
(***************************************************************************)
\* call i+1 was given the same text as call i
RepeatedAt(i) ==
  /\ i + 1 <= Len(calls)
  /\ calls[i].arg = calls[i + 1].arg
  /\ DeltaText(calls[i].arg) # <<>>

\* C3 as stated: whenever the same fragment text t with len(t) > 2 is fed to
\* process_chunk twice in a row, the text returned for the second call is empty.
C3_RepeatSuppressedAnyText ==
  \A i \in 1..Len(calls) :
    (RepeatedAt(i) /\ Len(DeltaText(calls[i].arg)) > 2)
      => DeltaText(calls[i + 1].ret) = <<>>

\* C3 as amended: whenever the same fragment text t with 2 < len(t) <= 20 whose
\* whitespace-trimmed length exceeds 1 is fed to process_chunk twice in a row,
\* the text returned for the second call is empty.
C3_RepeatSuppressed ==
  \A i \in 1..Len(calls) :
    LET t == DeltaText(calls[i].arg)
    IN (RepeatedAt(i) /\ Len(t) > 2 /\ Len(t) <= MaxOverlap /\ Len(Strip(t)) > 1)
         => DeltaText(calls[i + 1].ret) = <<>>

\* a non-trivial fragment of at most 20 characters that the first call trimmed
\* was fed again and the second call returned the empty text
C3_Witness ==
  \E i \in 1..Len(calls) :
    LET t == DeltaText(calls[i].arg)
    IN /\ RepeatedAt(i) /\ Len(t) > 2 /\ Len(t) <= MaxOverlap /\ Len(Strip(t)) > 1
       /\ DeltaText(calls[i].ret) # <<>>
       /\ DeltaText(calls[i + 1].ret) = <<>>

\* the trim the claim describes for previous fragment p and new fragment c
C4_Expected(p, c) ==
  LET ks == {k \in 3..Min2(20, Min2(Len(p), Len(c))) : LastN(p, k) = FirstN(c, k)}
  IN IF Len(p) > 3 /\ Len(c) > 3 /\ ks # {} THEN DropN(c, MaxOf(ks)) ELSE c

\* call i found exactly one previous raw fragment and a text not yet accumulated
C4_Case(i) ==
  /\ Len(calls[i].before.last_chunks) = 1
  /\ DeltaText(calls[i].arg) # <<>>
  /\ ~Contains(calls[i].before.accumulated_content, DeltaText(calls[i].arg))

\* C4 as stated: with p the only previous raw fragment and c not a substring of
\* accumulatedText, process_chunk returns c without its first k characters, k the
\* largest overlap in 3..min(20, len(p), len(c)), and c unchanged when there is none.
C4_TrimArithmeticAnyText ==
  \A i \in 1..Len(calls) :
    C4_Case(i) =>
      DeltaText(calls[i].ret)
        = C4_Expected(calls[i].before.last_chunks[1], DeltaText(calls[i].arg))

\* C4 as amended: the same, for every c whose whitespace-trimmed length exceeds 1
\* (a c that trims to at most one character is returned unchanged).
C4_TrimArithmetic ==
  \A i \in 1..Len(calls) :
    LET c == DeltaText(calls[i].arg)
    IN /\ (C4_Case(i) /\ Len(Strip(c)) > 1) =>
            DeltaText(calls[i].ret) = C4_Expected(calls[i].before.last_chunks[1], c)
       /\ (C4_Case(i) /\ calls[i].before.last_chunks[1] = HelloWor /\ c = World) =>
            DeltaText(calls[i].ret) = <<"l", "d">>

\* a 22-character fragment that repeats the 21 characters of the only previous
\* fragment was trimmed by the capped overlap of 20, not by 21
C4_Witness ==
  \E i \in 1..Len(calls) :
    /\ C4_Case(i)
    /\ calls[i].before.last_chunks[1] = A21
    /\ calls[i].arg = DeltaChunk(A21Bang)
    /\ DeltaText(calls[i].ret) = <<"a", "!">>

\* C29: for every reachable tracker state and every fragment text c, the text
\* process_chunk returns is a suffix of c: c itself, c without its first k
\* characters for some 3 <= k <= 20, or the empty string.
C29_ReturnsSuffix ==
  \A i \in 1..Len(calls) :
    LET c == DeltaText(calls[i].arg)
        out == DeltaText(calls[i].ret)
    IN \/ out = c
       \/ out = <<>>
       \/ \E k \in 3..20 : k <= Len(c) /\ out = SubSeq(c, k + 1, Len(c))

\* a fragment of 22 characters that repeats the 21 of the one before lost its
\* first 20 characters, the most that can be removed
C29_Witness ==
  \E i \in 1..Len(calls) :
    /\ DeltaText(calls[i].arg) = A21Bang
    /\ calls[i].before.last_chunks # <<>>
    /\ calls[i].before.last_chunks[Len(calls[i].before.last_chunks)] = A21
    /\ DeltaText(calls[i].ret) = SubSeq(A21Bang, 21, 22)

(***************************************************************************)
(* Claims about the window of recent fragments (under WindowSpec)          *)
(***************************************************************************)
\* C11: in every state reachable by any sequence of process_chunk calls,
\* last_chunks holds at most 5 entries.
C11_WindowBounded ==
  /\ Len(tracker.last_chunks) <= MaxChunksToTrack
  /\ \A i \in 1..Len(calls) : Len(calls[i].after.last_chunks) <= MaxChunksToTrack

\* a call found the window full, appended its fragment and evicted the oldest
C11_Witness ==
  \E i \in 1..Len(calls) :
    /\ Len(calls[i].before.last_chunks) = MaxChunksToTrack
    /\ Len(calls[i].after.last_chunks) = MaxChunksToTrack
    /\ calls[i].after.last_chunks[MaxChunksToTrack] = DeltaText(calls[i].arg)
    /\ calls[i].after.last_chunks # calls[i].before.last_chunks

\* the texts fed so far, in feeding order
Fed == [i \in 1..Len(calls) |-> DeltaText(calls[i].arg)]

PairwiseDistinct(texts) ==
  \A i, j \in 1..Len(texts) : i # j => texts[i] # texts[j]

\* call i was stopped neither by the triviality filter nor as an exact duplicate
Accumulated(i) ==
  LET t == DeltaText(calls[i].arg)
  IN /\ Len(Strip(t)) > 1
     /\ ~(Len(t) > 2 /\ Contains(calls[i].before.accumulated_content, t))

\* C14 as stated: after feeding a fresh tracker n >= 5 pairwise distinct
\* fragments, last_chunks is exactly the last 5 fragments fed, in feeding order,
\* as raw texts.
C14_WindowIsLastFiveFed ==
  (Len(Fed) >= MaxChunksToTrack /\ PairwiseDistinct(Fed))
    => tracker.last_chunks = LastN(Fed, MaxChunksToTrack)

\* C14 as amended: the same, when every fragment fed has a whitespace-trimmed
\* length above 1 and none longer than 2 characters occurs in the text
\* accumulated before it.
C14_WindowIsLastFiveAccumulated ==
  (/\ Len(Fed) >= MaxChunksToTrack /\ PairwiseDistinct(Fed)
   /\ \A i \in 1..Len(calls) : Accumulated(i))
    => tracker.last_chunks = LastN(Fed, MaxChunksToTrack)

\* six distinct fragments were fed, the first was evicted, and "world", returned
\* as "ld" after "hello wor", is in the window as the raw text
C14_Witness ==
  /\ Len(Fed) = MaxChunksToTrack + 1 /\ PairwiseDistinct(Fed)
  /\ \A i \in 1..Len(calls) : Accumulated(i)
  /\ tracker.last_chunks = Tail(Fed)
  /\ \E i \in 1..Len(calls) :
       /\ DeltaText(calls[i].arg) = World
       /\ DeltaText(calls[i].ret) = <<"l", "d">>
       /\ \E j \in 1..Len(tracker.last_chunks) : tracker.last_chunks[j] = World

(***************************************************************************)
(* Claims about the cap on accumulated_content (under CapSpec)             *)
(***************************************************************************)
\* C12: at rest between process_chunk calls, the length of accumulated_content
\* is at most the cap (10000, here scaled down together with the retained tail).
C12_AccumulatedWithinCap == Len(tracker.accumulated_content) <= limits.cap

\* the number of characters call i appended to accumulated_content
AppendedLen(i) ==
  IF Len(Strip(DeltaText(calls[i].arg))) <= 1 THEN 0 ELSE Len(DeltaText(calls[i].ret))

RECURSIVE TotalAppended(_)
TotalAppended(n) == IF n = 0 THEN 0 ELSE TotalAppended(n - 1) + AppendedLen(n)

\* C13 as stated: once the fragments fed have accumulated more characters than
\* the cap, after the latest call len(accumulated_content) is at most the retained
\* tail plus the length of the text that call appended.
C13_TailAfterOverflow ==
  TotalAppended(Len(calls)) > limits.cap
    => Len(tracker.accumulated_content) <= limits.keep + AppendedLen(Len(calls))

\* C13 as amended: after a call that found accumulated_content longer than the
\* cap and whose fragment has a whitespace-trimmed length above 1,
\* len(accumulated_content) is at most the retained tail plus the length of the
\* text that call appended.
C13_TailAfterTruncation ==
  \A i \in 1..Len(calls) :
    (/\ Len(calls[i].before.accumulated_content) > limits.cap
     /\ Len(Strip(DeltaText(calls[i].arg))) > 1)
      => Len(calls[i].after.accumulated_content) <= limits.keep + AppendedLen(i)

\* a call found more than the cap accumulated, cut it to the retained tail and
\* appended its own text
C13_Witness ==
  \E i \in 1..Len(calls) :
    /\ Len(calls[i].before.accumulated_content) > limits.cap
    /\ AppendedLen(i) > 0
    /\ calls[i].after.accumulated_content
         = LastN(calls[i].before.accumulated_content, limits.keep)
             \o DeltaText(calls[i].ret)

\* the length of t without its leading and trailing whitespace
TrimmedLen(t) ==
  LET inked == {i \in 1..Len(t) : t[i] \notin {" ", "\n", "\t"}}
  IN IF inked = {} THEN 0 ELSE MaxOf(inked) - MinOf(inked) + 1

\* C21: when a fragment's whitespace-trimmed text has length <= 1, process_chunk
\* returns the fragment text unchanged and leaves accumulated_content and
\* last_chunks exactly as they were (no truncation, no append).
C21_TrivialFragmentIsFrame ==
  \A i \in 1..Len(calls) :
    TrimmedLen(DeltaText(calls[i].arg)) <= 1 =>
      /\ calls[i].ret = calls[i].arg
      /\ calls[i].after = calls[i].before

\* a trivial fragment arrived while more than the cap was accumulated, and the
\* text was not cut
C21_Witness ==
  \E i \in 1..Len(calls) :
    /\ DeltaText(calls[i].arg) = PadX
    /\ Len(calls[i].before.accumulated_content) > limits.cap
    /\ calls[i].after = calls[i].before
    /\ calls[i].ret = calls[i].arg

\* call i was stopped neither by the triviality filter nor as an exact duplicate
\* of the capped accumulated text
Updating(i) ==
  LET t == DeltaText(calls[i].arg)
      acc == calls[i].before.accumulated_content
      kept == IF Len(acc) > limits.cap THEN LastN(acc, limits.keep) ELSE acc
  IN /\ TrimmedLen(t) > 1
     /\ ~(Len(t) > 2 /\ Contains(kept, t))

\* C23: after process_chunk returns for a non-trivial, non-duplicate fragment,
\* accumulated_content is the cap-truncated previous text followed by the text
\* returned, and last_chunks is the previous window with the untrimmed fragment
\* appended and, if that made 6 entries, the oldest removed.
C23_StateUpdate ==
  \A i \in 1..Len(calls) :
    Updating(i) =>
      LET acc == calls[i].before.accumulated_content
          kept == IF Len(acc) > limits.cap THEN LastN(acc, limits.keep) ELSE acc
          grown == Append(calls[i].before.last_chunks, DeltaText(calls[i].arg))
      IN /\ calls[i].after.accumulated_content = kept \o DeltaText(calls[i].ret)
         /\ calls[i].after.last_chunks
              = IF Len(grown) = MaxChunksToTrack + 1 THEN Tail(grown) ELSE grown

\* one call found more than the cap accumulated and the window full, and
\* trimmed "world" to "ld": the text was cut, "ld" accumulated, "world" remembered
\* and the oldest entry evicted
C23_Witness ==
  \E i \in 1..Len(calls) :
    /\ Updating(i)
    /\ Len(calls[i].before.accumulated_content) > limits.cap
    /\ Len(calls[i].before.last_chunks) = MaxChunksToTrack
    /\ DeltaText(calls[i].arg) = World
    /\ DeltaText(calls[i].ret) = <<"l", "d">>
    /\ calls[i].after.last_chunks[MaxChunksToTrack] = World

\* C24: process_chunk never changes the chunk object it was given: after the
\* call the caller's input still holds the original text.
C24_ArgumentUntouched ==
  \A i \in 1..Len(calls) : calls[i].arg_after = calls[i].arg

C30_DeltaShapeOnly ==
  \A i \in 1..Len(calls) :
    DeltaText(calls[i].arg) = <<>> =>
      /\ calls[i].ret = calls[i].arg
      /\ calls[i].arg_after = calls[i].arg
      /\ calls[i].after = calls[i].before

\* a message-shape chunk carrying "abcdef" came after the fragment "abcdef" had
\* been accumulated: it was returned whole and the tracker was left as it was
C30_Witness ==
  \E i \in 1..Len(calls) :
    /\ calls[i].arg = MessageChunk(JStr(<<"x">>), JStr(<<"m">>), JStr(Abcdef))
    /\ Contains(calls[i].before.accumulated_content, Abcdef)
    /\ calls[i].ret = calls[i].arg
    /\ calls[i].after = calls[i].before

(***************************************************************************)
(* Claims about a streaming session (under Spec and FairSpec)              *)
(***************************************************************************)
IsTerminal(ev) == ev.event \in {"done", "error"}
EventIndexes(kind) == {i \in 1..Len(events) : events[i].event = kind}
TerminalIndexes == {i \in 1..Len(events) : IsTerminal(events[i])}
HasTerminal == TerminalIndexes # {}

\* the contents of the message events, in emission order
RECURSIVE MessageContents(_)
MessageContents(evs) ==
  IF evs = <<>> THEN <<>>
  ELSE IF Head(evs).event = "message"
  THEN <<Head(evs).data.content>> \o MessageContents(Tail(evs))
  ELSE MessageContents(Tail(evs))

\* the text a body line carries as choices[0].delta.content, <<>> when it is no
\* well-formed content line
LineText(line) ==
  IF /\ ~line.blank /\ line.prefix /\ line.payload.k = "json"
     /\ line.payload.v.t = "dict"
     /\ "choices" \in DOMAIN line.payload.v.d
     /\ line.payload.v.d.choices.t = "list"
     /\ line.payload.v.d.choices.items # <<>>
     /\ line.payload.v.d.choices.items[1].t = "dict"
     /\ "delta" \in DOMAIN line.payload.v.d.choices.items[1].d
     /\ line.payload.v.d.choices.items[1].d.delta.t = "dict"
     /\ "content" \in DOMAIN line.payload.v.d.choices.items[1].d.delta.d
     /\ line.payload.v.d.choices.items[1].d.delta.d.content.t = "str"
  THEN line.payload.v.d.choices.items[1].d.delta.d.content.s
  ELSE <<>>

\* the fragments the provider has sent, in line order
RECURSIVE UpstreamFragments(_)
UpstreamFragments(lines) ==
  IF lines = <<>> THEN <<>>
  ELSE IF LineText(Head(lines)) # <<>>
  THEN <<LineText(Head(lines))>> \o UpstreamFragments(Tail(lines))
  ELSE UpstreamFragments(Tail(lines))

\* C1: whatever the outcome of a session, the emitted events hold exactly one
\* terminal event (done or error) and no event follows it.
C1_ExactlyOneTerminal ==
  /\ Cardinality(TerminalIndexes) <= 1
  /\ \A i \in TerminalIndexes : i = Len(events)
  /\ pc = "finished" => Cardinality(TerminalIndexes) = 1

\* the non-empty texts a fresh tracker returns for the fragments, in order
RECURSIVE TrackerOutputs(_, _)
TrackerOutputs(self, texts) ==
  IF texts = <<>> THEN <<>>
  ELSE LET r == process_chunk(self, DeltaChunk(Head(texts)),
                              [cap |-> AccumulatedCap, keep |-> AccumulatedKeep])
           out == DeltaText(r.chunk_data)
       IN (IF out = <<>> THEN <<>> ELSE <<JStr(out)>>)
            \o TrackerOutputs(r.self, Tail(texts))

\* C2: when the body ends with [DONE], the message events are exactly the
\* non-empty outputs of the session's DuplicateContentTracker for the upstream
\* fragments, in order, followed by one done event.
C2_MessagesAreTrackerOutputs ==
  (/\ pc = "yield_done" /\ ~cancelMark.set
   /\ received # <<>> /\ received[Len(received)] = DoneLine)
    => /\ MessageContents(events) = TrackerOutputs(NewTracker, UpstreamFragments(received))
       /\ events[Len(events)] = DoneEvent
       /\ Cardinality(EventIndexes("done")) = 1

\* the body of the non-200 response carries error.message as a string;
\* error.metadata and error.provider_error are objects when present, and
\* error.metadata.raw is a string when present
HasErrorMessage(body) ==
  /\ body.json /\ body.data.t = "dict" /\ "error" \in DOMAIN body.data.d
  /\ body.data.d.error.t = "dict"
  /\ "message" \in DOMAIN body.data.d.error.d
  /\ body.data.d.error.d.message.t = "str"
  /\ "metadata" \in DOMAIN body.data.d.error.d =>
       /\ body.data.d.error.d.metadata.t = "dict"
       /\ "raw" \in DOMAIN body.data.d.error.d.metadata.d
            => body.data.d.error.d.metadata.d.raw.t = "str"
  /\ "provider_error" \in DOMAIN body.data.d.error.d
       => body.data.d.error.d.provider_error.t = "dict"

\* error.metadata.raw when it is a non-empty string, <<>> otherwise
RawOf(body) ==
  LET e == body.data.d.error.d
  IN IF /\ "metadata" \in DOMAIN e /\ "raw" \in DOMAIN e.metadata.d
        /\ e.metadata.d.raw.t = "str"
     THEN e.metadata.d.raw.s ELSE <<>>

\* a non-200 response with error.message has been read
C5_Case == response.status \notin {0, 200} /\ HasErrorMessage(response.body)

\* exactly one error event and no message or done event
OnlyOneError ==
  /\ Len(events) = 1
  /\ events[1].event = "error"

\* C5 as stated: a non-200 response whose body carries error.message = m, with or
\* without error.metadata.raw or error.provider_error, yields exactly one error
\* event, no message or done event, and the error payload contains m verbatim.
C5_MessageAlwaysSurfaced ==
  C5_Case =>
    /\ OnlyOneError
    /\ Contains(events[1].data.error, response.body.data.d.error.d.message.s)

\* C5 as amended: such a response yields exactly one error event and no message
\* or done event; the payload contains m verbatim when error.metadata.raw is
\* absent or empty, and contains error.metadata.raw verbatim when that is a
\* non-empty string.
C5_DetailSurfaced ==
  C5_Case =>
    /\ OnlyOneError
    /\ Contains(events[1].data.error,
                IF RawOf(response.body) = <<>>
                THEN response.body.data.d.error.d.message.s
                ELSE RawOf(response.body))

\* HTTP 401 with {"error": {"message": "invalid api key"}} gave one error event
\* containing "invalid api key"
C5_Witness ==
  /\ response.status = 401
  /\ response.body.data = ErrorObject([message |-> JStr(InvalidApiKey)])
  /\ OnlyOneError
  /\ Contains(events[1].data.error, InvalidApiKey)

\* C15: for any non-200 upstream response with status code s, the diagnostic of
\* the session's error event contains s together with the provider detail and is
\* never replaced by a generic message.
C15_StatusPreserved ==
  response.status \notin {0, 200} =>
    \E i \in EventIndexes("error") :
      /\ Contains(events[i].data.error, Digits(response.status))
      /\ ~Contains(events[i].data.error, <<"Unexpected error: ">>)

\* C16: every event a session emits is a message with data {"content": <non-empty
\* text>}, a done with data {"status": "complete"}, or an error with data
\* {"detail": <diagnostic string>}; every error event carries its diagnostic under
\* the key "detail".
C16_EventShapes ==
  \A i \in 1..Len(events) :
    \/ /\ events[i].event = "message"
       /\ DOMAIN events[i].data = {"content"}
       /\ events[i].data.content.t = "str" /\ events[i].data.content.s # <<>>
    \/ /\ events[i].event = "done"
       /\ events[i].data = [status |-> "complete"]
    \/ /\ events[i].event = "error"
       /\ DOMAIN events[i].data = {"detail"}

\* C17: the reader ends normally both at the `data: [DONE]` sentinel and when
\* the upstream closes the body without it: the session then emits done, and not
\* error (unless the client cancels afterwards); no line is read after [DONE], so
\* none produces a chunk or a message event.
C17_NormalEnd ==
  /\ (upstreamEnd = "closed" \/ (received # <<>> /\ received[Len(received)] = DoneLine))
       => rpc = "ended"
  /\ rpc = "ended" =>
       /\ Cardinality(EventIndexes("done")) = 1
       /\ ~cancelMark.set =>
            (events[Len(events)] = DoneEvent /\ EventIndexes("error") = {})
       /\ Cardinality(EventIndexes("message")) = Len(UpstreamFragments(received))
  /\ \A i \in 1..Len(received) : received[i] = DoneLine => i = Len(received)

\* a fragment and then [DONE] were read: one message, then done, and the
\* connection is closed
C17_Witness ==
  /\ received = <<ContentLine(Abc), DoneLine>>
  /\ upstreamEnd = "open"
  /\ rpc = "ended" /\ ~connOpen
  /\ events = <<MessageEvent(JStr(Abc)), DoneEvent>>

UpstreamFailed ==
  \/ response.status \notin {0, 200}
  \/ upstreamEnd \in {"connect_error", "reset", "timeout"}

\* C19: in any session, whatever errors occur, at most one upstream HTTP request
\* is opened; after a failure of the upstream the session is at its terminal
\* error event, with the connection closed, and contacts the provider no more.
C19_NoRetry ==
  /\ requests <= 1
  /\ UpstreamFailed =>
       /\ rpc = "raised" /\ ~connOpen
       /\ pc \in {"yield_error", "finished"}
       /\ events[Len(events)].event = "error"
       /\ Cardinality(EventIndexes("error")) = 1

\* the connection was reset after a fragment: one request, one error event, and
\* the session has finished
C19_Witness ==
  /\ upstreamEnd = "reset" /\ received # <<>>
  /\ requests = 1
  /\ pc = "finished"
  /\ Cardinality(EventIndexes("message")) >= 1
  /\ events[Len(events)].event = "error"

\* What a session running alone makes of the lines it has read: the events of
\* the loop, the chunks counted, and whether the reader has left its loop.
RECURSIVE AloneOnLines(_, _)
AloneOnLines(lines, sofar) ==
  IF lines = <<>> \/ sofar.over THEN sofar
  ELSE LET o == LineOutcome(Head(lines), RequestModel)
           then ==
             CASE o.kind = "skip" -> sofar
               [] o.kind = "break" ->
                    [sofar EXCEPT !.events = Append(@, DoneEvent), !.over = TRUE]
               [] o.kind = "raise" ->
                    [sofar EXCEPT !.events = Append(@, ErrorEvent(UnexpectedError(o.what))),
                                  !.over = TRUE]
               [] o.kind = "yield" ->
                    LET content == ExtractContent(o.chunk)
                    IN [sofar EXCEPT
                          !.events = IF content = <<>> THEN @
                                     ELSE Append(@, MessageEvent(content[1])),
                          !.chunk_count = @ + 1]
       IN AloneOnLines(Tail(lines), then)

\* What a session running alone has emitted and counted once it has been given
\* the credential, the response, the lines and the end of the body that s records,
\* the client's cancellation aside.
AloneUncancelled(s) ==
  LET nothing == [events |-> <<>>, chunk_count |-> 0, over |-> FALSE]
      failed(e) == [events |-> <<ErrorEvent(e)>>, chunk_count |-> 0, over |-> TRUE]
  IN IF s.pc = "unstarted" THEN nothing
     ELSE IF ApiKeyError(s.user_api_key) # <<>> THEN failed(ApiKeyError(s.user_api_key)[1])
     ELSE IF s.response.status = 0
     THEN IF s.upstreamEnd = "open" THEN nothing ELSE failed(TransportError(s.upstreamEnd))
     ELSE IF s.response.status # 200
     THEN failed(StatusError(s.response.status, s.response.body))
     ELSE LET r == AloneOnLines(s.received, nothing)
          IN IF r.over \/ s.upstreamEnd = "open" THEN r
             ELSE IF s.upstreamEnd = "closed"
             THEN [r EXCEPT !.events = Append(@, DoneEvent)]
             ELSE [r EXCEPT !.events = Append(@, ErrorEvent(TransportError(s.upstreamEnd)))]

\* the same with the client's cancellation: it adds its error event unless the
\* session had already emitted an error event
AloneEvents(s) ==
  LET evs == AloneUncancelled(s).events
  IN IF s.cancelMark.set /\ (evs = <<>> \/ evs[Len(evs)].event # "error")
     THEN Append(evs, CancelledEvent) ELSE evs

\* session s has emitted and counted what it would have alone on its own input
RunsAsAlone(s) ==
  /\ s.events = AloneEvents(s)
  /\ s.chunk_count = AloneUncancelled(s).chunk_count

\* C20: under any interleaving of two concurrent streaming sessions, each session
\* emits the event sequence it would emit alone on the same upstream input, its
\* counter counts its own chunks only, and no session touches the tracker state
\* the module holds.
C20_SessionsIsolated ==
  /\ RunsAsAlone(Locals)
  /\ peer # NoPeer => RunsAsAlone(peer)
  /\ tracker = NewTracker /\ calls = <<>>

\* both sessions are in mid-stream at once, each with its own fragment emitted
\* and counted
C20_Witness ==
  /\ peer # NoPeer
  /\ pc = "sleep" /\ events = <<MessageEvent(JStr(Abc))>> /\ chunk_count = 1
  /\ peer.pc = "yield_message" /\ peer.chunk_count = 1
  /\ peer.events = <<MessageEvent(JStr(World))>>

\* C28: the streaming session forwards the reader's output verbatim: when the
\* upstream body has ended normally, the message events carry, one per line and
\* in order, every non-empty choices[0].delta.content of the well-formed lines
\* before [DONE].
C28_RelayTransparent ==
  rpc = "ended" =>
    MessageContents(events) = [i \in 1..Len(UpstreamFragments(received)) |->
                                 JStr(UpstreamFragments(received)[i])]

\* "The ", "quick ", "quick ", "brown fox", [DONE]: four messages, the repeated
\* fragment among them
C28_Witness ==
  /\ received = ScenarioLines
  /\ rpc = "ended"
  /\ MessageContents(events) = <<JStr(The), JStr(Quick), JStr(Quick), JStr(BrownFox)>>

\* the chunks handed to the loop so far, in order
RECURSIVE ChunksOf(_)
ChunksOf(lines) ==
  IF lines = <<>> THEN <<>> ELSE <<Head(lines).payload.v>> \o ChunksOf(Tail(lines))

\* the text the claim gives for a chunk: delta.content when the first choice has
\* a delta with a content field, else message.content when it has a message with
\* a content field, else empty; empty too without `choices` or with none
C25_Text(chunk) ==
  IF "choices" \notin DOMAIN chunk.d THEN <<>>
  ELSE IF chunk.d.choices.items = <<>> THEN <<>>
  ELSE LET choice == chunk.d.choices.items[1].d
       IN IF "delta" \in DOMAIN choice /\ "content" \in DOMAIN choice.delta.d
          THEN choice.delta.d.content.s
          ELSE IF "message" \in DOMAIN choice /\ "content" \in DOMAIN choice.message.d
          THEN choice.message.d.content.s
          ELSE <<>>

\* the non-empty texts of the chunks, in order
RECURSIVE C25_Texts(_)
C25_Texts(chunks) ==
  IF chunks = <<>> THEN <<>>
  ELSE (IF C25_Text(Head(chunks)) = <<>> THEN <<>> ELSE <<JStr(C25_Text(Head(chunks)))>>)
         \o C25_Texts(Tail(chunks))

\* C25: for every chunk the loop extracts delta.content when the delta shape
\* carries content, otherwise message.content when the message shape carries
\* content, otherwise nothing; a chunk without `choices`, with empty `choices` or
\* with empty text produces no message event, does not end the session and does
\* not keep later chunks from being emitted.
C25_ShapeNormalized ==
  /\ MessageContents(events) = C25_Texts(ChunksOf(received))
  /\ chunk_count = Len(received)
  /\ HasTerminal => (upstreamEnd = "closed" /\ events[Len(events)] = DoneEvent)
  /\ (/\ received # <<>> /\ C25_Text(received[Len(received)].payload.v) = <<>>
      /\ upstreamEnd = "open")
       => (pc = "await_chunk" /\ rpc = "await_line")

\* a chunk without `choices`, then one with both shapes, then a message-shape
\* chunk: two messages, the delta text of the second chunk and the message text
\* of the third
C25_Witness ==
  /\ ChunksOf(received) = <<JDict([id |-> JStr(<<"x">>)]), BothShapesChunk,
                            MessageChunk(JStr(<<"x">>), RequestModel, JStr(World))>>
  /\ MessageContents(events) = <<JStr(Abc), JStr(World)>>

\* C26: when stream = false and the reader fails at any point (non-200 status,
\* transport error, timeout, unexpected exception), the call surfaces one HTTP
\* 5xx error and returns no completion body, whatever had been collected.
C26_FailureIsOneError ==
  /\ rpc = "raised" =>
       /\ pc = "finished"
       /\ reply.status >= 500 /\ reply.status <= 599
       /\ reply.detail # <<>>
       /\ reply.content = <<>>
  /\ reply.status # 0 => pc = "finished"
  /\ pc = "finished" => (reply.status # 0 /\ rpc \in {"raised", "ended"} /\ ~connOpen)

\* the body broke off after a fragment had been collected: HTTP 500 and no
\* completion
C26_Witness ==
  /\ upstreamEnd = "reset"
  /\ reply.full_response # <<>>
  /\ reply.status = 500
  /\ reply.content = <<>>

\* the content of the chunks the reader yields for the lines, in order
RECURSIVE YieldedTexts(_)
YieldedTexts(lines) ==
  IF lines = <<>> THEN <<>>
  ELSE LET o == LineOutcome(Head(lines), RequestModel)
       IN (IF o.kind = "yield"
           THEN <<o.chunk.d.choices.items[1].d.message.d.content.s>>
           ELSE <<>>) \o YieldedTexts(Tail(lines))

\* the concatenation of the texts
RECURSIVE Concat(_)
Concat(texts) == IF texts = <<>> THEN <<>> ELSE Head(texts) \o Concat(Tail(texts))

\* C27: when stream = false and the upstream ends normally, the content returned
\* is the in-order concatenation of the content of every chunk the reader
\* yielded.
C27_ContentIsConcatenation ==
  reply.status = 200 => reply.content = Concat(YieldedTexts(received))

\* a line that is not a well-formed content event, as the claim lists them
Malformed(line) ==
  \/ line.blank
  \/ ~line.prefix
  \/ line.payload.k = "garbage"
  \/ /\ line.payload.k = "json"
     /\ ~(/\ line.payload.v.t = "dict"
          /\ "choices" \in DOMAIN line.payload.v.d
          /\ line.payload.v.d.choices.t = "list"
          /\ \A i \in 1..Len(line.payload.v.d.choices.items) :
               line.payload.v.d.choices.items[i].t = "dict")

\* C6: a line that is blank, lacks the "data: " prefix, fails JSON parsing or
\* parses to JSON of another shape never aborts the stream: the reader goes on
\* to the next line and the chunks of the other lines are emitted unchanged.
C6_MalformedLineSkipped ==
  /\ (/\ received # <<>> /\ Malformed(received[Len(received)])
      /\ upstreamEnd = "open" /\ ~cancelMark.set)
       => (rpc = "await_line" /\ pc = "await_chunk" /\ ~HasTerminal)
  /\ ~cancelMark.set =>
       MessageContents(events) = [i \in 1..Len(UpstreamFragments(received)) |->
                                    JStr(UpstreamFragments(received)[i])]

\* C7: once the session generator has finished, the upstream connection is closed.
C7_ClosedWhenFinished == pc = "finished" => ~connOpen

\* what the reader's end means for the client
ReaderOutcomeReported ==
  /\ rpc = "raised" => (HasTerminal /\ events[Len(events)].event = "error")
  /\ rpc = "ended" => (HasTerminal /\ events[Len(events)].event = "done")
  /\ pc = "finished" => HasTerminal

\* C8: a session whose client stays connected eventually emits a terminal event:
\* every fatal condition of the reader leads to an error event and every normal
\* end of the upstream to a done event.
C8_EventuallyTerminal == <>HasTerminal /\ []ReaderOutcomeReported

\* a read timeout in mid-stream was reported by an error event
C8_Witness ==
  /\ upstreamEnd = "timeout" /\ received # <<>> /\ rpc = "raised"
  /\ Cardinality(EventIndexes("message")) >= 1
  /\ events[Len(events)].event = "error"

\* C9: after the client cancels, the session pulls no further line from the
\* upstream, emits no further message and no done event, and emits at most one
\* error event.
C9_CancelStops ==
  cancelMark.set =>
    /\ Len(received) = cancelMark.received
    /\ Len(events) <= cancelMark.events + 1
    /\ Len(events) = cancelMark.events + 1 => events[Len(events)].event = "error"

\* the client cancelled after a message and the session ended with the
\* cancellation's error event
C9_Witness ==
  /\ cancelMark.set /\ cancelMark.events >= 1
  /\ events[cancelMark.events].event = "message"
  /\ pc = "finished"
  /\ events[Len(events)] = CancelledEvent

\* a is b with some elements left out, order kept
RECURSIVE IsSubsequence(_, _)
IsSubsequence(a, b) ==
  IF a = <<>> THEN TRUE
  ELSE IF b = <<>> THEN FALSE
  ELSE IF Head(a) = Head(b) THEN IsSubsequence(Tail(a), Tail(b))
  ELSE IsSubsequence(a, Tail(b))

\* C10: the contents of the message events are, in emission order, an
\* order-preserving subsequence of the content the upstream lines received so far
\* carried.
C10_OrderPreserved ==
  IsSubsequence(MessageContents(events),
                [i \in 1..Len(UpstreamFragments(received)) |->
                   JStr(UpstreamFragments(received)[i])])

\* two different fragments were received and emitted in that order
C10_Witness ==
  /\ Len(received) >= 2
  /\ MessageContents(events) = <<JStr(Abc), JStr(World)>>
  /\ UpstreamFragments(received) = <<Abc, World>>

====
